---- MODULE Spec2Model ----
(***************************************************************************)
(* A model of one rendering pass over a document built from the macros of  *)
(* macromania_pseudocode (Pseudocode, Loc, SpliceLoc, Indent, RefLoc) and  *)
(* macromania_structuredcode (Delimiters, Delimited), and of the BibScope   *)
(* macro of macromania_rustic.                                             *)
(*                                                                         *)
(* The macro engine evaluates a document depth first, left to right.  The  *)
(* model builds the document while it renders it: entering a macro pushes  *)
(* a frame on `stack` and runs what the macro does before its children,    *)
(* leaving it pops the frame and runs what the macro does after them.      *)
(* `out` is the rendered output, interleaved with markers that record      *)
(* where each macro of the document begins and ends.                       *)
(*                                                                         *)
(* Strings are sequences of one-character strings, so that formatting a    *)
(* number and concatenating are modelled by what they do.                  *)
(***************************************************************************)
EXTENDS Integers, Sequences, FiniteSets, TLC

VARIABLES
  state,      \* PeudocodeState: lineNumber, indentation, showLineNumbers, n
  config,     \* PseudocodeConfig: lineNumbering
  scState,    \* StructuredcodeState: rainbowCount
  scConfig,   \* StructuredcodeConfig: colorsOfTheRainbow, delimiterStyle
  stack,      \* the macros being rendered, outermost first
  out,        \* output events and document markers, in rendering order
  blocks,     \* one record per Pseudocode block rendered so far
  refs,       \* the references produced by RefLoc, in rendering order
  log,        \* the errors logged
  halted,     \* ctx.halt() was called: rendering has stopped
  asked,      \* the lines given to the RefLoc macros of the document, in order
  nodes,      \* number of macros of the document so far
  bib,        \* the ScopeState substate: <<>> for null, else <<the state>>
  retrieved   \* the last item lookup of the citation engine: <<>> or <<itemId and result>>

vars == <<state, config, scState, scConfig, stack, out, blocks, refs, log, halted, asked, nodes,
         bib, retrieved>>

(***************************************************************************)
(* Bounds of the model.                                                    *)
(***************************************************************************)
\* macros per document of Spec and SpecConfig
MaxNodes == 5
\* macros inside the Pseudocode block of a document of SpecCode
MaxCodeNodes == 3
\* largest line number a RefLoc is given
MaxLine == 2
\* longest many-list a RefLoc is given
MaxMany == 2
\* macros of a document of SpecRainbow besides its Config and its Pseudocode block
MaxRainbowNodes == 4
\* most items a BibScope declares
MaxItems == 2
\* most content expressions a Delimited is given
MaxContent == 2

(***************************************************************************)
(* Strings and numbers.                                                    *)
(***************************************************************************)
DigitChars == <<"0", "1", "2", "3", "4", "5", "6", "7", "8", "9">>

\* `${k}` for an integer k
RECURSIVE Dec(_)
Dec(k) ==
  IF k < 0 THEN <<"-">> \o Dec(-k)
  ELSE IF k < 10 THEN <<DigitChars[k + 1]>>
  ELSE Dec(k \div 10) \o <<DigitChars[(k % 10) + 1]>>

\* A JavaScript number: an integer or Infinity.
Fin(k) == [inf |-> FALSE, v |-> k]
Infinity == [inf |-> TRUE, v |-> 0]

\* Math.min that keeps its first argument once that is a number
MathMin_KeepsFirst(x, y) == IF x.inf THEN y ELSE x

\* Math.min
MathMin(x, y) ==
  IF x.inf THEN y
  ELSE IF y.inf THEN x
  ELSE IF x.v <= y.v THEN x ELSE y

\* `${x}` for a JavaScript number x
NumToString(x) ==
  IF x.inf THEN <<"I", "n", "f", "i", "n", "i", "t", "y">> ELSE Dec(x.v)

\* The JavaScript remainder a % b for b > 0: the sign follows the dividend.
JsRem(a, b) == IF a >= 0 THEN a % b ELSE -((-a) % b)

\* An optional boolean prop: undefined, true or false.
OptBool == {"undefined", "true", "false"}

\* !x for an optional boolean
Falsy(x) == x # "true"

(***************************************************************************)
(* macromania_pseudocode: configuration and state.                         *)
(***************************************************************************)
\* the default PseudocodeConfig
defaultPseudocodeConfig == [lineNumbering |-> FALSE]

\* how a ConfigPseudocode update changes the PseudocodeConfig
updatePseudocodeConfig(oldValue, update) ==
  IF update.lineNumbering # "undefined"
    THEN [oldValue EXCEPT !.lineNumbering = (update.lineNumbering = "true")]
    ELSE oldValue

\* the initial PeudocodeState
initialPseudocodeState ==
  [lineNumber |-> 1, indentation |-> 0, showLineNumbers |-> FALSE, n |-> <<>>]

\* `${n}L${line}`
lineId(n, line) == n \o <<"L">> \o NumToString(line)

(***************************************************************************)
(* Lines: a single line, a range of lines, or a list of those.             *)
(***************************************************************************)
Line(a) == [k |-> "number", a |-> a, b |-> a, many |-> <<>>]
Range(a, b) == [k |-> "range", a |-> a, b |-> b, many |-> <<>>]
Many(entries) == [k |-> "many", a |-> 0, b |-> 0, many |-> entries]

\* the error a range with its ends in the wrong order is reported with
RangeError(a, b) ==
  <<"In a range of lines, the second line must be greater than or equal to the first line, but got [">>
    \o Dec(a) \o <<",", " ">> \o Dec(b) \o <<"]">>

EmptyError == <<"Must highlight at least one line">>

\* The result of linesValidateAndFindFirst: whether ctx.halt() was called, the
\* errors logged, and the value returned when it was not.
RECURSIVE linesValidateAndFindFirst(_)
\* the loop of linesValidateAndFindFirst over theLines[i..], with `min` so far
RECURSIVE FindFirstLoop(_, _, _)
FindFirstLoop(theLines, i, min) ==
  IF i > Len(theLines) THEN [halt |-> FALSE, log |-> <<>>, v |-> min]
  ELSE LET r == linesValidateAndFindFirst(theLines[i])
       IN  IF r.halt THEN r
           ELSE FindFirstLoop(theLines, i + 1, MathMin(min, r.v))

\* linesValidateAndFindFirst that rejects the range of a single line
linesValidateAndFindFirst_RejectsEqual(lines) ==
  IF lines.k = "number" THEN [halt |-> FALSE, log |-> <<>>, v |-> Fin(lines.a)]
  ELSE IF lines.k = "range" THEN
    IF lines.a >= lines.b
      THEN [halt |-> TRUE, log |-> <<RangeError(lines.a, lines.b)>>, v |-> Fin(-1)]
      ELSE [halt |-> FALSE, log |-> <<>>, v |-> Fin(lines.a)]
  ELSE
    IF Len(lines.many) = 0
      THEN [halt |-> TRUE, log |-> <<EmptyError>>, v |-> Infinity]
      ELSE FindFirstLoop(lines.many, 1, Infinity)

\* linesValidateAndFindFirst that accepts the empty list
linesValidateAndFindFirst_AcceptsEmpty(lines) ==
  IF lines.k = "number" THEN [halt |-> FALSE, log |-> <<>>, v |-> Fin(lines.a)]
  ELSE IF lines.k = "range" THEN
    IF lines.a > lines.b
      THEN [halt |-> TRUE, log |-> <<RangeError(lines.a, lines.b)>>, v |-> Fin(-1)]
      ELSE [halt |-> FALSE, log |-> <<>>, v |-> Fin(lines.a)]
  ELSE FindFirstLoop(lines.many, 1, Infinity)

linesValidateAndFindFirst(lines) ==
  IF lines.k = "number" THEN [halt |-> FALSE, log |-> <<>>, v |-> Fin(lines.a)]
  ELSE IF lines.k = "range" THEN
    IF lines.a > lines.b
      THEN [halt |-> TRUE, log |-> <<RangeError(lines.a, lines.b)>>, v |-> Fin(-1)]
      ELSE [halt |-> FALSE, log |-> <<>>, v |-> Fin(lines.a)]
  ELSE
    IF Len(lines.many) = 0
      THEN [halt |-> TRUE, log |-> <<EmptyError>>, v |-> Infinity]
      ELSE FindFirstLoop(lines.many, 1, Infinity)

\* Array.prototype.join
RECURSIVE Join(_, _)
Join(strs, sep) ==
  IF Len(strs) = 0 THEN <<>>
  ELSE IF Len(strs) = 1 THEN strs[1]
  ELSE strs[1] \o sep \o Join(Tail(strs), sep)

RECURSIVE encodeLines(_)
\* encodeLines with the two separators exchanged
encodeLines_Exchanged(lines) ==
  IF lines.k = "number" THEN Dec(lines.a)
  ELSE IF lines.k = "range" THEN Dec(lines.a) \o <<"a">> \o Dec(lines.b)
  ELSE Join([i \in 1..Len(lines.many) |-> encodeLines(lines.many[i])], <<"b">>)

encodeLines(lines) ==
  IF lines.k = "number" THEN Dec(lines.a)
  ELSE IF lines.k = "range" THEN Dec(lines.a) \o <<"b">> \o Dec(lines.b)
  ELSE Join([i \in 1..Len(lines.many) |-> encodeLines(lines.many[i])], <<"a">>)

\* What the function of RefLoc does: halt with an error, or produce a reference.
RefLocFun(n, lines, noPreview) ==
  LET first == linesValidateAndFindFirst(lines)
      encodedLines == encodeLines(lines)
  IN  [halt |-> first.halt,
       log  |-> first.log,
       ref  |-> [n |-> n,
                 replacementId |-> lineId(n, first.v),
                 hlLines |-> encodedLines,
                 hlPseudocode |-> n,
                 noPreview |-> noPreview,
                 hllines |-> encodedLines]]

(***************************************************************************)
(* macromania_structuredcode: configuration and state.                     *)
(***************************************************************************)
DelimiterStyle == {"c", "python", "ruby"}

\* the default StructuredcodeConfig
defaultStructuredcodeConfig == [colorsOfTheRainbow |-> 3, delimiterStyle |-> "python"]

\* the initial StructuredcodeState
\* how a ConfigStructuredcode update changes the StructuredcodeConfig; an option
\* that is not given is the empty sequence (colorsOfTheRainbow) or "undefined"
updateStructuredcodeConfig(oldValue, update) ==
  LET coloured == IF update.colorsOfTheRainbow # <<>>
                    THEN [oldValue EXCEPT !.colorsOfTheRainbow = update.colorsOfTheRainbow[1]]
                    ELSE oldValue
  IN  IF update.delimiterStyle # "undefined"
        THEN [coloured EXCEPT !.delimiterStyle = update.delimiterStyle]
        ELSE coloured

initialStructuredcodeState == [rainbowCount |-> 0]

(***************************************************************************)
(* macromania_rustic: the items and the state of a BibScope.               *)
(***************************************************************************)
\* A JavaScript string or number, as the id of a BibItem is.
Str(chars) == [num |-> FALSE, s |-> chars, v |-> 0]
Num(v) == [num |-> TRUE, s |-> <<>>, v |-> v]

\* `${x}` for a string or number x
ToStr(x) == IF x.num THEN Dec(x.v) ELSE x.s

BibItem(id, type) == [id |-> id, type |-> type]

\* the item of a BibItemDeclaration: a BibItem, or a string of BibTex, for which
\* `parsed` is what CiteJs makes of it unless it throws
ObjectItem(item) == [string |-> FALSE, throws |-> FALSE, parsed |-> item]
BibTexItem(throws, parsed) == [string |-> TRUE, throws |-> throws, parsed |-> parsed]

BibItemDeclaration(href, item) ==
  [href |-> href, asset |-> "undefined", includeEvenIfNotCited |-> "undefined", item |-> item]

BibtexWarning == <<"Error parsing bibtex input:">>
\* what CiteJs threw
BibtexError == <<"err">>
NestError == <<"Must not nest BibScopes.">>

\* Map.prototype.set and Map.prototype.get; get gives <<>> for undefined
MapSet(map, key, value) ==
  [x \in (DOMAIN map) \cup {key} |-> IF x = key THEN value ELSE map[x]]
MapGet(map, key) == IF key \in DOMAIN map THEN <<map[key]>> ELSE <<>>
EmptyMap == [x \in {} |-> <<>>]

\* the loop of BibScope over items[i..]: the itemMap and the warnings logged
RECURSIVE ItemLoop(_, _, _, _)
ItemLoop(items, i, itemMap, warnings) ==
  IF i > Len(items) THEN [itemMap |-> itemMap, log |-> warnings]
  ELSE LET itemDeclaration == items[i]
           actualItem == itemDeclaration.item.parsed
           decl == [href |-> itemDeclaration.href,
                    asset |-> itemDeclaration.asset,
                    includeEvenIfNotCited |-> itemDeclaration.includeEvenIfNotCited,
                    item |-> actualItem]
       IN  IF itemDeclaration.item.string /\ itemDeclaration.item.throws
             THEN ItemLoop(items, i + 1, itemMap, warnings \o <<BibtexWarning, BibtexError>>)
             ELSE ItemLoop(items, i + 1, MapSet(itemMap, ToStr(actualItem.id), decl), warnings)

\* retrieveItem, as handed to the citation engine
retrieveItem(itemMap, itemId) == MapGet(itemMap, ToStr(itemId))

\* What the function of BibScope builds: the warnings and the state of the scope;
\* of the citation engine the model keeps the item lookup.
BibScopeFun(items) ==
  LET loop == ItemLoop(items, 1, EmptyMap, <<>>)
  IN  [log |-> loop.log,
       myState |-> [stillCollecting |-> TRUE, citations |-> <<>>,
                    citeproc |-> [itemMap |-> loop.itemMap]]]

initialScopeState == <<>>

\* pre of BibScope that sets the state before it looks for an enclosing scope
BibScopePre_SetsFirst(st, myState) ==
  IF st # <<>>
    THEN [halt |-> TRUE, log |-> <<NestError>>, state |-> <<myState>>]
    ELSE [halt |-> FALSE, log |-> <<>>, state |-> <<myState>>]

\* pre of BibScope: halt inside another BibScope, else set the state
BibScopePre(st, myState) ==
  IF st # <<>>
    THEN [halt |-> TRUE, log |-> <<NestError>>, state |-> st]
    ELSE [halt |-> FALSE, log |-> <<>>, state |-> <<myState>>]

\* post of BibScope
BibScopePost(st) == <<>>

(***************************************************************************)
(* Output events and document markers.                                     *)
(*   t   what it is: "start" and "end" open and close a line of code,      *)
(*       "open" and "close" are the spans of a pair of delimiters, "text"  *)
(*       and "sep" are a content expression and a separator, "ref" is a    *)
(*       reference; "X" and "/X" mark where macro X of the document begins *)
(*       and ends                                                          *)
(*   d   nesting depth of the macro it belongs to                          *)
(*   l   start: the line number rendered; else state.lineNumber then       *)
(*   i   start: the data attribute i; else state.indentation then          *)
(*   k   start: the number of indent divs                                  *)
(*   c   open, close: the rainbow class, <<>> when there is none           *)
(*   id  start: the html id of the gutter; open, close: the delimiter      *)
(*       markers: what the macro was given (Delimiters: its noRainbow      *)
(*       prop; Delimited: style, multiline, pythonSkip and the number of   *)
(*       content expressions; ConfigStructuredcode: the number of colours; *)
(*       BibScope: its items)                                              *)
(***************************************************************************)
Ev(t, d, l, i, k, c, id) ==
  [t |-> t, d |-> d, l |-> l, i |-> i, k |-> k, c |-> c, id |-> id]

\* A rendering in progress: the pseudocode state, the rainbow counter, the
\* output and the references.
Rendering(st, rc, o, r) == [state |-> st, rainbowCount |-> rc, out |-> o, refs |-> r]

\* Append an event that renders no state of its own to a rendering.
Emit(R, t, d, c, id) ==
  [R EXCEPT !.out = Append(R.out, Ev(t, d, R.state.lineNumber, R.state.indentation, 0, c, id))]

\* Append a marker to a rendering.
Mark(R, t, d) == Emit(R, t, d, <<>>, <<>>)

\* StartLoc that counts the line twice
StartLoc_CountsTwice(R, d) ==
  [R EXCEPT !.state.lineNumber = R.state.lineNumber + 2,
            !.out = Append(R.out, Ev("start", d, R.state.lineNumber, R.state.indentation,
                                     R.state.indentation, <<>>,
                                     lineId(R.state.n, Fin(R.state.lineNumber))))]

\* StartLoc: render the gutter of a new line, then count the line.
StartLoc(R, d) ==
  LET st == R.state
      gutterRef == RefLocFun(st.n, Line(st.lineNumber), TRUE).ref
      gutter == Ev("start", d, st.lineNumber, st.indentation, st.indentation,
                   <<>>, lineId(st.n, Fin(st.lineNumber)))
  IN  [R EXCEPT !.state.lineNumber = st.lineNumber + 1,
                !.out = Append(R.out, gutter),
                !.refs = Append(R.refs, gutterRef)]

\* EndLoc that renders nothing
EndLoc_Nothing(R, d) == R

\* EndLoc: close the line.
EndLoc(R, d) == Emit(R, "end", d, <<>>, <<>>)

\* pre of Indent
IndentPre(R) == [R EXCEPT !.state.indentation = R.state.indentation + 1]

\* post of Indent that leaves the indentation as it is
IndentPost_Keeps(R) == R

\* post of Indent
IndentPost(R) == [R EXCEPT !.state.indentation = R.state.indentation - 1]

\* pre and post of Delimiters that are rainbowed
DelimitersPre(R, colorsOfTheRainbow) ==
  [R EXCEPT !.rainbowCount = JsRem(R.rainbowCount + 1, colorsOfTheRainbow)]
DelimitersPost(R, colorsOfTheRainbow) ==
  [R EXCEPT !.rainbowCount = JsRem(R.rainbowCount - 1, colorsOfTheRainbow)]

\* the class of rainbowed delimiters
RainbowClazz(R) == <<"r", "b">> \o Dec(R.rainbowCount)

\* Delimiters that count themselves in the rainbow even with noRainbow
DelimitersOpen_CountsAll(R, d, delim, noRainbow, colorsOfTheRainbow) ==
  LET P == DelimitersPre(Emit(R, "Delimiters", d, <<>>,
                              IF noRainbow THEN <<"noRainbow">> ELSE <<>>),
                         colorsOfTheRainbow)
      clazz == IF noRainbow THEN <<>> ELSE RainbowClazz(P)
  IN  [clazz |-> clazz, R |-> Emit(P, "open", d, clazz, delim)]

\* Delimiters, up to its children: the class of the pair and the rendering; the
\* marker carries the noRainbow prop
DelimitersOpen(R, d, delim, noRainbow, colorsOfTheRainbow) ==
  IF noRainbow
    THEN [clazz |-> <<>>,
          R |-> Emit(Emit(R, "Delimiters", d, <<>>, <<"noRainbow">>), "open", d, <<>>, delim)]
    ELSE LET P == DelimitersPre(Mark(R, "Delimiters", d), colorsOfTheRainbow)
         IN  [clazz |-> RainbowClazz(P), R |-> Emit(P, "open", d, RainbowClazz(P), delim)]

\* Delimiters, after its children
DelimitersClose(R, d, delim, noRainbow, clazz, colorsOfTheRainbow) ==
  LET C == Emit(R, "close", d, clazz, delim)
  IN  IF noRainbow THEN Emit(C, "/Delimiters", d, <<>>, <<"noRainbow">>)
      ELSE Mark(DelimitersPost(C, colorsOfTheRainbow), "/Delimiters", d)

\* <Loc>{exp}</Loc> for a content expression without macros
LocOfText(R, d, separated) ==
  LET S == Emit(StartLoc(Mark(R, "Loc", d), d), "text", d, <<>>, <<>>)
      T == IF separated THEN Emit(S, "sep", d, <<>>, <<>>) ELSE S
  IN  Mark(EndLoc(T, d), "/Loc", d)

\* the content expressions j..n of a multiline Delimited, a line each
RECURSIVE LocsOfContent(_, _, _, _, _)
LocsOfContent(R, d, j, n, separator) ==
  IF j > n THEN R
  ELSE LocsOfContent(LocOfText(R, d, separator), d, j + 1, n, separator)

\* the content expressions j..n of a Delimited in a shared line
RECURSIVE InlineContent(_, _, _, _, _)
InlineContent(R, d, j, n, separator) ==
  IF j > n THEN R
  ELSE LET T == Emit(R, "text", d, <<>>, <<>>)
           S == IF separator /\ j < n THEN Emit(T, "sep", d, <<>>, <<>>) ELSE T
       IN  InlineContent(S, d, j + 1, n, separator)

\* What Delimited renders between its delimiters
BetweenDelimiters(R, d, n, multiline, separator) ==
  IF multiline
    THEN LET S == EndLoc(Mark(R, "SpliceLoc", d), d)
             I == Mark(IndentPre(S), "Indent", d + 1)
             L == LocsOfContent(I, d + 2, 1, n, separator)
             J == Mark(IndentPost(L), "/Indent", d + 1)
         IN  Mark(StartLoc(J, d), "/SpliceLoc", d)
    ELSE InlineContent(R, d, 1, n, separator)

\* Delimited that omits the delimiters of content in a shared line too
DelimitedFun_SkipsInline(R, d, cfg, n, multiline, separator, pythonSkip, ruby, noRainbow) ==
  LET noDelims == cfg.delimiterStyle = "python" /\ pythonSkip
      D == DelimitersOpen(R, d + 1, <<"c">>, noRainbow, cfg.colorsOfTheRainbow)
  IN  IF noDelims
        THEN BetweenDelimiters(R, d + 1, n, multiline, separator)
        ELSE DelimitersClose(BetweenDelimiters(D.R, d + 2, n, multiline, separator),
                             d + 1, <<"c">>, noRainbow, D.clazz, cfg.colorsOfTheRainbow)

\* What the function of Delimited renders, for n content expressions without macros
DelimitedFun(R, d, cfg, n, multiline, separator, pythonSkip, ruby, noRainbow) ==
  LET style == cfg.delimiterStyle
      delim == IF style = "ruby" /\ ruby THEN <<"ruby">> ELSE <<"c">>
      noDelims == multiline /\ style = "python" /\ pythonSkip
      D == DelimitersOpen(R, d + 1, delim, noRainbow, cfg.colorsOfTheRainbow)
  IN  IF noDelims
        THEN BetweenDelimiters(R, d + 1, n, multiline, separator)
        ELSE DelimitersClose(BetweenDelimiters(D.R, d + 2, n, multiline, separator),
                             d + 1, delim, noRainbow, D.clazz, cfg.colorsOfTheRainbow)

(***************************************************************************)
(* The rendering pass.                                                     *)
(***************************************************************************)
\* A macro being rendered: for Config the update it makes and the configuration
\* to go back to, for Delimiters the class of the pair and its noRainbow prop.
Frame(kind, clazz, noRainbow, update) ==
  [kind |-> kind, saved |-> config, savedStructuredcode |-> scConfig, clazz |-> clazz,
   noRainbow |-> noRainbow, update |-> update]

\* the updates of the Config macros around the macro being rendered, outermost first
RECURSIVE Updates(_)
Updates(frames) ==
  IF frames = <<>> THEN <<>>
  ELSE LET rest == Updates(Tail(frames))
       IN  IF Head(frames).kind = "Config" THEN <<Head(frames).update>> \o rest ELSE rest

Now == Rendering(state, scState.rainbowCount, out, refs)

InBlock == \E j \in DOMAIN stack : stack[j].kind = "Pseudocode"

CanEnter(max) == ~halted /\ nodes < max

Top == stack[Len(stack)]

CanExit(kind) == ~halted /\ Len(stack) > 0 /\ Top.kind = kind

\* the name of the next Pseudocode block
BlockName == <<"p">> \o Dec(Len(blocks) + 1)

Init ==
  /\ state = initialPseudocodeState
  /\ config = defaultPseudocodeConfig
  /\ scState = initialStructuredcodeState
  /\ scConfig = defaultStructuredcodeConfig
  /\ stack = <<>>
  /\ out = <<>>
  /\ blocks = <<>>
  /\ refs = <<>>
  /\ log = <<>>
  /\ halted = FALSE
  /\ asked = <<>>
  /\ nodes = 0
  /\ bib = initialScopeState
  /\ retrieved = <<>>

\* Take over a rendering.
Rendered(R) ==
  /\ state' = R.state
  /\ scState' = [scState EXCEPT !.rainbowCount = R.rainbowCount]
  /\ out' = R.out
  /\ refs' = R.refs

\* Push a frame and take over a rendering.
Enter(frame, R) ==
  /\ stack' = Append(stack, frame)
  /\ nodes' = nodes + 1
  /\ Rendered(R)

\* Pop the top frame and take over a rendering.
Exit(R) ==
  /\ stack' = SubSeq(stack, 1, Len(stack) - 1)
  /\ nodes' = nodes
  /\ Rendered(R)

\* <Config options={<ConfigPseudocode .../>}>: the update holds for the children.
ConfigPseudocodeEnter(max) ==
  \E lineNumbering \in OptBool :
    /\ CanEnter(max) /\ ~InBlock
    /\ Enter(Frame("Config", <<>>, FALSE, lineNumbering), Mark(Now, "Config", Len(stack) + 1))
    /\ config' = updatePseudocodeConfig(config, [lineNumbering |-> lineNumbering])
    /\ UNCHANGED <<bib, retrieved, scConfig, blocks, log, halted, asked>>

ConfigPseudocodeExit ==
  /\ CanExit("Config")
  /\ Exit(Mark(Now, "/Config", Len(stack)))
  /\ config' = Top.saved
  /\ UNCHANGED <<bib, retrieved, scConfig, blocks, log, halted, asked>>

\* <Config options={<ConfigStructuredcode .../>}>; the marker carries the number
\* of colours the update gives
ConfigStructuredcodeEnter(max, colorsOfTheRainbow, delimiterStyle) ==
  LET update == [colorsOfTheRainbow |-> colorsOfTheRainbow, delimiterStyle |-> delimiterStyle]
      colours == IF colorsOfTheRainbow = <<>> THEN <<>> ELSE Dec(colorsOfTheRainbow[1])
  IN  /\ CanEnter(max) /\ ~InBlock
      /\ Enter(Frame("ConfigStructuredcode", <<>>, FALSE, "undefined"),
               Emit(Now, "ConfigStructuredcode", Len(stack) + 1, <<>>, colours))
      /\ scConfig' = updateStructuredcodeConfig(scConfig, update)
      /\ UNCHANGED <<bib, retrieved, config, blocks, log, halted, asked>>

ConfigStructuredcodeExit ==
  /\ CanExit("ConfigStructuredcode")
  /\ Exit(Mark(Now, "/ConfigStructuredcode", Len(stack)))
  /\ scConfig' = Top.savedStructuredcode
  /\ UNCHANGED <<bib, retrieved, config, blocks, log, halted, asked>>

\* Pseudocode that never resets the line number
PseudocodeFun_NeverResets(st, cfg, n, lineNumbering, noLineNumberReset) ==
  [st EXCEPT !.showLineNumbers =
               IF lineNumbering = "undefined" THEN cfg.lineNumbering ELSE lineNumbering = "true",
             !.n = n]

\* Pseudocode that always resets the line number
PseudocodeFun_AlwaysResets(st, cfg, n, lineNumbering, noLineNumberReset) ==
  [st EXCEPT !.showLineNumbers =
               IF lineNumbering = "undefined" THEN cfg.lineNumbering ELSE lineNumbering = "true",
             !.lineNumber = 1,
             !.n = n]

\* Pseudocode that looks at the configuration only
PseudocodeFun_IgnoresProp(st, cfg, n, lineNumbering, noLineNumberReset) ==
  [st EXCEPT !.showLineNumbers = cfg.lineNumbering,
             !.lineNumber = IF Falsy(noLineNumberReset) THEN 1 ELSE st.lineNumber,
             !.n = n]

\* What the function of Pseudocode does to the state.
PseudocodeFun(st, cfg, n, lineNumbering, noLineNumberReset) ==
  LET doNumber == IF lineNumbering = "undefined"
                    THEN cfg.lineNumbering
                    ELSE lineNumbering = "true"
      lineNumber == IF Falsy(noLineNumberReset) THEN 1 ELSE st.lineNumber
  IN  [st EXCEPT !.showLineNumbers = doNumber, !.lineNumber = lineNumber, !.n = n]

\* the class of the code element of a Pseudocode block
PseudocodeClazz(st) ==
  <<"pseudocode">> \o (IF st.showLineNumbers THEN <<>> ELSE <<" noLineNumbers">>)

PseudocodeEnter(max, lineNumbering, noLineNumberReset) ==
  LET st == PseudocodeFun(state, config, BlockName, lineNumbering, noLineNumberReset)
      R  == Mark([Now EXCEPT !.state = st], "Pseudocode", Len(stack) + 1)
  IN  /\ CanEnter(max) /\ ~InBlock
      /\ Enter(Frame("Pseudocode", <<>>, FALSE, "undefined"), R)
      /\ blocks' = Append(blocks,
           [n |-> BlockName,
            lineNumbering |-> lineNumbering,
            noLineNumberReset |-> noLineNumberReset,
            updates |-> Updates(stack),
            id |-> BlockName,
            showLineNumbers |-> st.showLineNumbers,
            clazz |-> PseudocodeClazz(st)])
      /\ UNCHANGED <<bib, retrieved, config, scConfig, log, halted, asked>>

PseudocodeExit ==
  /\ CanExit("Pseudocode")
  /\ Exit(Mark(Now, "/Pseudocode", Len(stack)))
  /\ UNCHANGED <<bib, retrieved, config, scConfig, blocks, log, halted, asked>>

\* Loc: StartLoc, the children, EndLoc.
LocEnter(max) ==
  /\ CanEnter(max) /\ InBlock
  /\ Enter(Frame("Loc", <<>>, FALSE, "undefined"),
           StartLoc(Mark(Now, "Loc", Len(stack) + 1), Len(stack) + 1))
  /\ UNCHANGED <<bib, retrieved, config, scConfig, blocks, log, halted, asked>>

LocExit ==
  /\ CanExit("Loc")
  /\ Exit(Mark(EndLoc(Now, Len(stack)), "/Loc", Len(stack)))
  /\ UNCHANGED <<bib, retrieved, config, scConfig, blocks, log, halted, asked>>

\* SpliceLoc that opens a line where it has to close one
SpliceLocEnter_Opens(max) ==
  /\ CanEnter(max) /\ InBlock
  /\ Enter(Frame("SpliceLoc", <<>>, FALSE, "undefined"),
           StartLoc(Mark(Now, "SpliceLoc", Len(stack) + 1), Len(stack) + 1))
  /\ UNCHANGED <<bib, retrieved, config, scConfig, blocks, log, halted, asked>>

\* SpliceLoc: EndLoc, the children, StartLoc.
SpliceLocEnter(max) ==
  /\ CanEnter(max) /\ InBlock
  /\ Enter(Frame("SpliceLoc", <<>>, FALSE, "undefined"),
           EndLoc(Mark(Now, "SpliceLoc", Len(stack) + 1), Len(stack) + 1))
  /\ UNCHANGED <<bib, retrieved, config, scConfig, blocks, log, halted, asked>>

SpliceLocExit ==
  /\ CanExit("SpliceLoc")
  /\ Exit(Mark(StartLoc(Now, Len(stack)), "/SpliceLoc", Len(stack)))
  /\ UNCHANGED <<bib, retrieved, config, scConfig, blocks, log, halted, asked>>

\* Indent: pre, the children, post.
IndentEnter(max) ==
  /\ CanEnter(max) /\ InBlock
  /\ Enter(Frame("Indent", <<>>, FALSE, "undefined"), Mark(IndentPre(Now), "Indent", Len(stack) + 1))
  /\ UNCHANGED <<bib, retrieved, config, scConfig, blocks, log, halted, asked>>

IndentExit ==
  /\ CanExit("Indent")
  /\ Exit(Mark(IndentPost(Now), "/Indent", Len(stack)))
  /\ UNCHANGED <<bib, retrieved, config, scConfig, blocks, log, halted, asked>>

\* Delimiters: the opening delimiter, the children, the closing delimiter.
DelimitersEnter(max) ==
  \E noRainbow \in BOOLEAN :
    LET D == DelimitersOpen(Now, Len(stack) + 1, <<"c">>, noRainbow, scConfig.colorsOfTheRainbow)
    IN  /\ CanEnter(max) /\ InBlock
        /\ Enter(Frame("Delimiters", D.clazz, noRainbow, "undefined"), D.R)
        /\ UNCHANGED <<bib, retrieved, config, scConfig, blocks, log, halted, asked>>

DelimitersExit ==
  /\ CanExit("Delimiters")
  /\ Exit(DelimitersClose(Now, Len(stack), <<"c">>, Top.noRainbow, Top.clazz,
                          scConfig.colorsOfTheRainbow))
  /\ UNCHANGED <<bib, retrieved, config, scConfig, blocks, log, halted, asked>>

\* Delimited whose content expressions contain no macros; multiline and pythonSkip
\* are optional booleans.  The marker carries the delimiter style in force, the
\* two props and the number of content expressions.
Delimited(max, n, multiline, separator, pythonSkip, ruby, noRainbow) ==
  LET d == Len(stack) + 1
      given == <<scConfig.delimiterStyle, multiline, pythonSkip>> \o Dec(n)
      R == DelimitedFun(Emit(Now, "Delimited", d, <<>>, given), d, scConfig, n,
                        ~Falsy(multiline), separator, ~Falsy(pythonSkip), ruby, noRainbow)
  IN  /\ CanEnter(max) /\ InBlock
      /\ Rendered(Mark(R, "/Delimited", d))
      /\ nodes' = nodes + 1
      /\ UNCHANGED <<bib, retrieved, config, scConfig, stack, blocks, log, halted, asked>>

\* BibScope, up to its children; the marker carries the items prop.
BibScopeEnter(max, items) ==
  LET f == BibScopeFun(items)
      M == Emit(Now, "BibScope", Len(stack) + 1, <<>>, items)
      pre == BibScopePre(bib, f.myState)
  IN  /\ CanEnter(max)
      /\ log' = log \o f.log \o pre.log
      /\ bib' = pre.state
      /\ halted' = pre.halt
      /\ IF pre.halt
           THEN Rendered(M) /\ nodes' = nodes + 1 /\ UNCHANGED stack
           ELSE Enter(Frame("BibScope", <<>>, FALSE, "undefined"), M)
      /\ UNCHANGED <<config, scConfig, blocks, asked, retrieved>>

\* BibScope, after its children
BibScopeExit ==
  /\ CanExit("BibScope")
  /\ Exit(Mark(Now, "/BibScope", Len(stack)))
  /\ bib' = BibScopePost(bib)
  /\ UNCHANGED <<config, scConfig, blocks, log, halted, asked, retrieved>>

\* The citation engine of the active BibScope looks an item up.
RetrieveItem(itemId) ==
  /\ ~halted /\ bib # <<>>
  /\ retrieved' = <<[itemId |-> itemId,
                     result |-> retrieveItem(bib[1].citeproc.itemMap, itemId)]>>
  /\ UNCHANGED <<state, config, scState, scConfig, stack, out, blocks, refs, log,
                 halted, asked, nodes, bib>>

\* RefLoc: halt with an error, or produce a reference.
RefLoc(max, n, lines, noPreview) ==
  LET r == RefLocFun(n, lines, noPreview)
      d == Len(stack) + 1
  IN  /\ CanEnter(max)
      /\ nodes' = nodes + 1
      /\ asked' = Append(asked, lines)
      /\ IF r.halt
           THEN /\ halted' = TRUE
                /\ log' = log \o r.log
                /\ UNCHANGED <<state, scState, out, refs>>
           ELSE /\ Rendered([Emit(Now, "ref", d, <<>>, r.ref.replacementId)
                               EXCEPT !.refs = Append(refs, r.ref)])
                /\ UNCHANGED <<halted, log>>
      /\ UNCHANGED <<bib, retrieved, config, scConfig, stack, blocks>>

(***************************************************************************)
(* Spec: documents of Pseudocode blocks made of Loc, SpliceLoc and Indent. *)
(***************************************************************************)
Block == \E noLineNumberReset \in OptBool : PseudocodeEnter(MaxNodes, "undefined", noLineNumberReset)

Next ==
  \/ Block
  \/ PseudocodeExit
  \/ LocEnter(MaxNodes)
  \/ LocExit
  \/ SpliceLocEnter(MaxNodes)
  \/ SpliceLocExit
  \/ IndentEnter(MaxNodes)
  \/ IndentExit

Spec == Init /\ [][Next]_vars

(***************************************************************************)
(* SpecConfig: documents of Pseudocode blocks under ConfigPseudocode.      *)
(***************************************************************************)
ConfiguredBlock ==
  \E lineNumbering \in OptBool : PseudocodeEnter(MaxNodes, lineNumbering, "undefined")

NextConfig ==
  \/ ConfigPseudocodeEnter(MaxNodes)
  \/ ConfigPseudocodeExit
  \/ ConfiguredBlock
  \/ PseudocodeExit

SpecConfig == Init /\ [][NextConfig]_vars

(***************************************************************************)
(* SpecCode: one Pseudocode block of structured code.                      *)
(***************************************************************************)
\* the lines a RefLoc of a document of SpecCode is given
CodeLines == {Range(1, 2), Range(2, 1), Many(<<>>)}

CodeBlock ==
  \E noLineNumberReset \in {"undefined", "true"} :
    /\ nodes = Len(blocks)
    /\ PseudocodeEnter(MaxCodeNodes + 1, "undefined", noLineNumberReset)

CodeDelimited ==
  \E multiline \in {"true", "false"}, pythonSkip \in {"true", "false"} :
    Delimited(MaxCodeNodes + 1, MaxContent, multiline, FALSE, pythonSkip, FALSE, FALSE)

CodeRefLoc ==
  \E lines \in CodeLines : InBlock /\ RefLoc(MaxCodeNodes + 1, state.n, lines, FALSE)

NextCode ==
  \/ CodeBlock
  \/ PseudocodeExit
  \/ LocEnter(MaxCodeNodes + 1)
  \/ LocExit
  \/ SpliceLocEnter(MaxCodeNodes + 1)
  \/ SpliceLocExit
  \/ IndentEnter(MaxCodeNodes + 1)
  \/ IndentExit
  \/ DelimitersEnter(MaxCodeNodes + 1)
  \/ DelimitersExit
  \/ CodeDelimited
  \/ CodeRefLoc

SpecCode == Init /\ [][NextCode]_vars

(***************************************************************************)
(* SpecRainbow: one Pseudocode block of nested and sibling Delimiters,     *)
(* under the default number of colours or under a configured one.          *)
(***************************************************************************)
\* the colorsOfTheRainbow a document of SpecRainbow configures
RainbowColours == {<<>>, <<2>>}

RainbowConfig ==
  \E colorsOfTheRainbow \in RainbowColours :
    /\ nodes = 0
    /\ ConfigStructuredcodeEnter(MaxRainbowNodes + 2, colorsOfTheRainbow, "undefined")

RainbowBlock ==
  /\ nodes = Len(stack)
  /\ PseudocodeEnter(MaxRainbowNodes + 2, "undefined", "undefined")

NextRainbow ==
  \/ RainbowConfig
  \/ ConfigStructuredcodeExit
  \/ RainbowBlock
  \/ PseudocodeExit
  \/ DelimitersEnter(MaxRainbowNodes + 2)
  \/ DelimitersExit

SpecRainbow == Init /\ [][NextRainbow]_vars

(***************************************************************************)
(* SpecStyle: one Pseudocode block that holds one Delimited, under the     *)
(* default delimiter style or under a configured one.                      *)
(***************************************************************************)
StyleConfig ==
  \E delimiterStyle \in DelimiterStyle \cup {"undefined"} :
    /\ nodes = 0
    /\ ConfigStructuredcodeEnter(MaxNodes, <<>>, delimiterStyle)

StyleBlock ==
  /\ nodes = Len(stack)
  /\ PseudocodeEnter(MaxNodes, "undefined", "undefined")

StyleDelimited ==
  \E n \in 0..MaxContent, multiline \in OptBool, pythonSkip \in OptBool,
     separator \in BOOLEAN, ruby \in BOOLEAN, noRainbow \in BOOLEAN :
    /\ nodes = Len(stack)
    /\ Delimited(MaxNodes, n, multiline, separator, pythonSkip, ruby, noRainbow)

NextStyle ==
  \/ StyleConfig
  \/ ConfigStructuredcodeExit
  \/ StyleBlock
  \/ PseudocodeExit
  \/ StyleDelimited

SpecStyle == Init /\ [][NextStyle]_vars

(***************************************************************************)
(* SpecRef: a document that is one RefLoc.                                 *)
(***************************************************************************)
LineNumbers == (0..MaxLine) \cup {12}

Entries == {Line(a) : a \in LineNumbers} \cup {Range(a, b) : a, b \in LineNumbers}

RECURSIVE SeqsUpTo(_, _)
\* the sequences over S of length at most n
SeqsUpTo(S, n) ==
  IF n = 0 THEN {<<>>}
  ELSE LET shorter == SeqsUpTo(S, n - 1)
       IN  shorter \cup {Append(q, x) : q \in {r \in shorter : Len(r) = n - 1}, x \in S}

AllLines == Entries \cup {Many(q) : q \in SeqsUpTo(Entries, MaxMany)}

OneRefLoc ==
  \E lines \in AllLines :
    /\ nodes = 0
    /\ RefLoc(MaxNodes, <<"p", "1">>, lines, FALSE)

NextRef == OneRefLoc

SpecRef == Init /\ [][NextRef]_vars

(***************************************************************************)
(* SpecBib: a BibScope, its item lookups, and a BibScope inside it.        *)
(***************************************************************************)
BibItems ==
  {BibItem(Str(<<"a">>), "book"), BibItem(Str(<<"a">>), "article"),
   BibItem(Str(<<"1">>), "book"), BibItem(Num(1), "article")}

Declarations ==
  {BibItemDeclaration("undefined", ObjectItem(item)) : item \in BibItems}
    \cup {BibItemDeclaration("undefined", BibTexItem(throws, BibItem(Str(<<"b">>), "book"))) :
            throws \in BOOLEAN}

\* the ids the citation engine asks for
ItemIds == {Str(<<"a">>), Str(<<"1">>), Num(1), Str(<<"b">>), Num(12)}

ABibScope ==
  \E items \in SeqsUpTo(Declarations, MaxItems) :
    /\ nodes = Len(stack)
    /\ BibScopeEnter(MaxNodes, items)

ALookup == \E itemId \in ItemIds : RetrieveItem(itemId)

NextBib ==
  \/ ABibScope
  \/ BibScopeExit
  \/ ALookup

SpecBib == Init /\ [][NextBib]_vars

(***************************************************************************)
(* Reading the output.                                                     *)
(***************************************************************************)
\* the positions of the output where a line of code is opened
Starts == {j \in DOMAIN out : out[j].t = "start"}

\* the number of the Pseudocode block position j of the output lies in
BlockOf(j) == Cardinality({p \in 1..j : out[p].t = "Pseudocode"})

\* the positions where a line of block b is opened
StartsOf(b) == {j \in Starts : BlockOf(j) = b}

\* position j opens the first line of its block
FirstOfBlock(j) == j \in Starts /\ \A p \in Starts : p < j => BlockOf(p) # BlockOf(j)

\* the lines opened and not closed after position j of the output
OpenAt(j) ==
  Cardinality({p \in 1..j : out[p].t = "start"}) - Cardinality({p \in 1..j : out[p].t = "end"})

\* block b numbers its lines from 1
Resets(b) == Falsy(blocks[b].noLineNumberReset)

(***************************************************************************)
(* C1: the first line of a Pseudocode block whose noLineNumberReset is     *)
(* false or undefined is numbered 1, whatever was rendered before it.      *)
(***************************************************************************)
C1_FirstLineIsOne ==
  \A j \in Starts : (FirstOfBlock(j) /\ Resets(BlockOf(j))) => out[j].l = 1

\* a second block that resets opens its first line after a block with lines
C1_Witness ==
  \E j \in Starts :
    /\ FirstOfBlock(j) /\ Resets(BlockOf(j))
    /\ \E p \in Starts : p < j /\ out[p].l >= 2

(***************************************************************************)
(* C2: the first line of a Pseudocode block whose noLineNumberReset is     *)
(* true is numbered one more than the last line rendered before the block, *)
(* and 1 when no line was rendered before it.                              *)
(* This fails when a block that resets and renders no line comes between:  *)
(* C2_AsClaimed is the claim as made, C2_FirstLineContinues the claim that *)
(* holds, which counts only the lines rendered since the last reset.       *)
(***************************************************************************)
\* the last of a non-empty set of positions
Last(S) == CHOOSE p \in S : \A q \in S : q <= p

C2_AsClaimed ==
  \A j \in Starts :
    (FirstOfBlock(j) /\ ~Resets(BlockOf(j))) =>
      LET before == {p \in Starts : p < j}
      IN  IF before = {} THEN out[j].l = 1 ELSE out[j].l = out[Last(before)].l + 1

\* the last block before block b that resets, 0 when there is none
LastReset(b) ==
  LET resetting == {r \in 1..(b - 1) : Resets(r)}
  IN  IF resetting = {} THEN 0 ELSE Last(resetting)

\* The first line of a block that does not reset is numbered one more than the
\* last line rendered since the last block before it that resets began (since
\* the beginning when no block before it resets), and 1 when there is no such line.
C2_FirstLineContinues ==
  \A j \in Starts :
    (FirstOfBlock(j) /\ ~Resets(BlockOf(j))) =>
      LET since == {p \in Starts : p < j /\ BlockOf(p) >= LastReset(BlockOf(j))}
      IN  IF since = {} THEN out[j].l = 1 ELSE out[j].l = out[Last(since)].l + 1

\* a second block that does not reset opens its first line after a block of two lines
C2_Witness ==
  \E j \in Starts :
    /\ FirstOfBlock(j) /\ ~Resets(BlockOf(j))
    /\ BlockOf(j) = 2
    /\ out[j].l = 3

(***************************************************************************)
(* C3: lines are numbered consecutively in rendering order.  Each StartLoc *)
(* renders the current line number and then increases it by exactly 1,     *)
(* nothing else but the beginning of a Pseudocode block changes the line   *)
(* number, and the k-th line of a block that resets is numbered k.         *)
(***************************************************************************)
\* state.lineNumber after position j of the output was rendered
LineNumberAfter(j) == IF out[j].t = "start" THEN out[j].l + 1 ELSE out[j].l

C3_LinesConsecutive ==
  /\ \A j \in DOMAIN out :
       (j > 1 /\ out[j].t # "Pseudocode") => out[j].l = LineNumberAfter(j - 1)
  /\ out # <<>> => state.lineNumber = LineNumberAfter(Len(out))
  /\ \A b \in DOMAIN blocks :
       Resets(b) =>
         \A j \in StartsOf(b) : out[j].l = Cardinality({p \in StartsOf(b) : p <= j})

\* the third line of a block that resets, opened after an Indent and a delimiter
C3_Witness ==
  \E j \in Starts :
    /\ Resets(BlockOf(j))
    /\ out[j].l = 3
    /\ \E p, q \in 1..j :
         /\ BlockOf(p) = BlockOf(j) /\ out[p].t = "Indent"
         /\ BlockOf(q) = BlockOf(j) /\ out[q].t = "open"

(***************************************************************************)
(* C4: every line is rendered with an indentation (the data attribute i    *)
(* and the number of indent divs) equal to the number of Indent macros     *)
(* around its StartLoc, for any nesting of Indent, Loc and SpliceLoc.      *)
(***************************************************************************)
\* the number of Indent macros around position j of the output
IndentsAround(j) ==
  Cardinality({p \in 1..j : out[p].t = "Indent"})
    - Cardinality({p \in 1..j : out[p].t = "/Indent"})

C4_IndentationIsNesting ==
  \A j \in Starts : out[j].i = IndentsAround(j) /\ out[j].k = IndentsAround(j)

\* a line inside two Indents, and after it a line inside one
C4_Witness ==
  \E j, p \in Starts : j < p /\ out[j].i = 2 /\ out[p].i = 1

(***************************************************************************)
(* C5: a Loc emits exactly one line opening, then its children, then       *)
(* exactly one line closing; a Loc whose children open no lines advances   *)
(* the line number by exactly 1 and leaves no line open.                   *)
(***************************************************************************)
\* the Locs rendered to their end: where each begins and ends in the output
LocPairs ==
  {pq \in (DOMAIN out) \X (DOMAIN out) :
     /\ pq[1] < pq[2]
     /\ out[pq[1]].t = "Loc" /\ out[pq[2]].t = "/Loc" /\ out[pq[1]].d = out[pq[2]].d
     /\ \A j \in (pq[1] + 1)..(pq[2] - 1) : ~(out[j].t = "/Loc" /\ out[j].d = out[pq[1]].d)}

\* what the children of the Loc from p to q rendered
ChildrenOf(p, q) == (p + 2)..(q - 2)

C5_LocIsOneLine ==
  /\ \A p \in DOMAIN out :
       out[p].t = "Loc" => p < Len(out) /\ out[p + 1].t = "start" /\ out[p + 1].d = out[p].d
  /\ \A pq \in LocPairs :
       LET p == pq[1]
           q == pq[2]
       IN  /\ p + 1 < q - 1
           /\ out[q - 1].t = "end" /\ out[q - 1].d = out[p].d
           /\ \A j \in ChildrenOf(p, q) : out[j].d > out[p].d
           /\ (\A j \in ChildrenOf(p, q) : out[j].t # "start") =>
                /\ out[q].l = out[p].l + 1
                /\ OpenAt(q) = OpenAt(p)

\* a Loc with children that open no lines, rendered to its end
C5_Witness ==
  \E pq \in LocPairs :
    /\ ChildrenOf(pq[1], pq[2]) # {}
    /\ \A j \in ChildrenOf(pq[1], pq[2]) : out[j].t # "start"

(***************************************************************************)
(* C6: a Loc that is a line of its own and contains one SpliceLoc whose    *)
(* children are m Locs renders m+2 lines; their openings and closings      *)
(* alternate, beginning with an opening and ending with a closing, so that *)
(* never two lines are open and never a line is closed that is not open.   *)
(***************************************************************************)
EnterMarkers == {"Config", "Pseudocode", "Loc", "SpliceLoc", "Indent", "Delimiters", "Delimited"}

\* the Loc from p to q has one child, a SpliceLoc, whose children are Locs without children
IsSplitLoc(p, q) ==
  /\ Cardinality({j \in p..q : out[j].t = "SpliceLoc" /\ out[j].d = out[p].d + 1}) = 1
  /\ \A j \in (p + 1)..(q - 1) :
       out[j].t \in EnterMarkers =>
         \/ out[j].t = "SpliceLoc" /\ out[j].d = out[p].d + 1
         \/ out[j].t = "Loc" /\ out[j].d = out[p].d + 2

\* the Locs inside the Loc from p to q
LocsInside(p, q) == {j \in (p + 1)..(q - 1) : out[j].t = "Loc"}

\* the line openings and closings from p to q
Brackets(p, q) == {j \in p..q : out[j].t \in {"start", "end"}}

C6_SpliceSplitsLoc ==
  \A pq \in LocPairs :
    LET p == pq[1]
        q == pq[2]
        B == Brackets(p, q)
    IN  (OpenAt(p) = 0 /\ IsSplitLoc(p, q)) =>
          /\ Cardinality({j \in B : out[j].t = "start"}) = Cardinality(LocsInside(p, q)) + 2
          /\ Cardinality({j \in B : out[j].t = "end"}) = Cardinality(LocsInside(p, q)) + 2
          /\ \A j \in B :
               out[j].t = (IF Cardinality({x \in B : x < j}) % 2 = 0 THEN "start" ELSE "end")
          /\ \A j \in p..q : OpenAt(j) \in {0, 1}
          /\ OpenAt(q) = 0

\* a Loc split by a SpliceLoc of two Locs, rendered to its end
C6_Witness ==
  \E pq \in LocPairs :
    /\ OpenAt(pq[1]) = 0
    /\ IsSplitLoc(pq[1], pq[2])
    /\ Cardinality(LocsInside(pq[1], pq[2])) = 2

(***************************************************************************)
(* C7: a Pseudocode block shows line numbers iff its lineNumbering prop is *)
(* true, or the prop is undefined and the lineNumbering option of the      *)
(* configuration is true; the option is false unless a ConfigPseudocode    *)
(* around the block sets it; the block has the class noLineNumbers exactly *)
(* when it shows no line numbers.                                          *)
(***************************************************************************)
\* the lineNumbering option under the updates us, outermost first, when it was v outside
RECURSIVE OptionUnder(_, _)
OptionUnder(us, v) ==
  IF us = <<>> THEN v
  ELSE OptionUnder(Tail(us), IF Head(us) = "undefined" THEN v ELSE Head(us) = "true")

\* block b has to show line numbers
HasToNumber(b) ==
  \/ blocks[b].lineNumbering = "true"
  \/ blocks[b].lineNumbering = "undefined" /\ OptionUnder(blocks[b].updates, FALSE)

C7_LineNumbersShown ==
  \A b \in DOMAIN blocks :
    /\ blocks[b].showLineNumbers = HasToNumber(b)
    /\ blocks[b].clazz = (IF HasToNumber(b) THEN <<"pseudocode">>
                                             ELSE <<"pseudocode", " noLineNumbers">>)

\* a block that follows a configuration of true, a block whose prop overrides it,
\* and a block outside of it that follows the default
C7_Witness ==
  \E a, b, c \in DOMAIN blocks :
    /\ blocks[a].lineNumbering = "undefined" /\ OptionUnder(blocks[a].updates, FALSE)
    /\ blocks[a].clazz = <<"pseudocode">>
    /\ blocks[b].lineNumbering = "false" /\ OptionUnder(blocks[b].updates, FALSE)
    /\ blocks[b].clazz = <<"pseudocode", " noLineNumbers">>
    /\ a < c /\ blocks[c].lineNumbering = "undefined" /\ blocks[c].updates = <<>>
    /\ blocks[c].clazz = <<"pseudocode", " noLineNumbers">>

(***************************************************************************)
(* C8: a RefLoc given a range [a, b] with a > b, directly or as an entry   *)
(* of a many-list, logs an error and halts without producing a reference;  *)
(* ranges with a <= b are accepted.                                        *)
(***************************************************************************)
IsBadRange(e) == e.k = "range" /\ e.a > e.b

\* the ranges of lines whose ends are in the wrong order, in the order of validation
BadRanges(lines) ==
  IF lines.k = "many" THEN SelectSeq(lines.many, IsBadRange)
  ELSE IF IsBadRange(lines) THEN <<lines>> ELSE <<>>

C8_BadRangeHalts ==
  asked # <<>> =>
    LET lines == asked[1]
        bad == BadRanges(lines)
    IN  /\ bad # <<>> =>
             /\ halted /\ refs = <<>> /\ out = <<>>
             /\ log = <<RangeError(bad[1].a, bad[1].b)>>
        /\ (bad = <<>> /\ lines # Many(<<>>)) =>
             /\ ~halted /\ Len(refs) = 1 /\ log = <<>>

\* a many-list of a range of one line and a range in the wrong order has halted
C8_Witness ==
  /\ halted
  /\ Len(asked) = 1 /\ asked[1].k = "many" /\ Len(asked[1].many) = 2
  /\ asked[1].many[1].k = "range" /\ asked[1].many[1].a = asked[1].many[1].b
  /\ IsBadRange(asked[1].many[2])

(***************************************************************************)
(* C9: a RefLoc given the empty many-list logs an error and halts, and no  *)
(* reference is produced whose first line is not a number.                 *)
(***************************************************************************)
\* the line that the replacement id of reference r names
LinePart(r) == SubSeq(r.replacementId, Len(r.n) + 2, Len(r.replacementId))

IsDigits(str) == str # <<>> /\ \A j \in DOMAIN str : \E v \in DOMAIN DigitChars : DigitChars[v] = str[j]

C9_EmptyManyHalts ==
  /\ (asked # <<>> /\ asked[1] = Many(<<>>)) =>
       /\ halted /\ refs = <<>> /\ out = <<>>
       /\ log = <<EmptyError>>
  /\ \A j \in DOMAIN refs :
       /\ SubSeq(refs[j].replacementId, 1, Len(refs[j].n) + 1) = refs[j].n \o <<"L">>
       /\ IsDigits(LinePart(refs[j]))

\* the empty many-list has halted the rendering
C9_Witness == halted /\ asked = <<Many(<<>>)>> /\ log = <<EmptyError>>

(***************************************************************************)
(* C10: encodeLines encodes a line as its decimal integer, a range as its  *)
(* two decimal integers with a 'b' between them, and a many-list as the    *)
(* encodings of its entries, in order, with an 'a' between them.           *)
(***************************************************************************)
\* the pieces of str between the occurrences of the character ch
RECURSIVE Split(_, _)
Split(str, ch) ==
  LET at == {j \in DOMAIN str : str[j] = ch}
  IN  IF at = {} THEN <<str>>
      ELSE LET j == CHOOSE x \in at : \A y \in at : x <= y
           IN  <<SubSeq(str, 1, j - 1)>> \o Split(SubSeq(str, j + 1, Len(str)), ch)

\* the number a string of digits is read as
RECURSIVE ReadDigits(_)
ReadDigits(str) ==
  IF str = <<>> THEN 0
  ELSE 10 * ReadDigits(SubSeq(str, 1, Len(str) - 1))
         + (CHOOSE v \in 0..9 : DigitChars[v + 1] = str[Len(str)])

\* str is the decimal integer a
IsDecimalOf(str, a) ==
  /\ IsDigits(str)
  /\ Len(str) = 1 \/ str[1] # "0"
  /\ ReadDigits(str) = a

\* str encodes the line or range e
EncodesEntry(str, e) ==
  IF e.k = "number" THEN IsDecimalOf(str, e.a)
  ELSE LET ends == Split(str, "b")
       IN  Len(ends) = 2 /\ IsDecimalOf(ends[1], e.a) /\ IsDecimalOf(ends[2], e.b)

\* str encodes lines
Encodes(str, lines) ==
  IF lines.k # "many" THEN EncodesEntry(str, lines)
  ELSE IF lines.many = <<>> THEN str = <<>>
  ELSE LET pieces == Split(str, "a")
       IN  /\ Len(pieces) = Len(lines.many)
           /\ \A j \in DOMAIN pieces : EncodesEntry(pieces[j], lines.many[j])

C10_EncodeLines ==
  asked # <<>> =>
    /\ Encodes(encodeLines(asked[1]), asked[1])
    /\ refs # <<>> =>
         /\ Encodes(refs[1].hlLines, asked[1])
         /\ refs[1].hllines = refs[1].hlLines

\* the reference to lines 1 to 12 and line 0 carries the encoding 1b12a0
C10_Witness ==
  /\ asked = <<Many(<<Range(1, 12), Line(0)>>)>>
  /\ Len(refs) = 1
  /\ refs[1].hlLines = <<"1", "b", "1", "2", "a", "0">>

(***************************************************************************)
(* C11: the reference a RefLoc produces links to the element whose id is   *)
(* lineId(n, m), where m is the line itself for a single line, the lower   *)
(* end for a range, and for a many-list the least of the first lines of    *)
(* its entries, whatever the order of the entries.                         *)
(***************************************************************************)
\* the first line of a line or of a range
FirstOfEntry(e) == e.a

\* the first lines of the entries of lines
FirstLines(lines) ==
  IF lines.k = "many" THEN {FirstOfEntry(lines.many[j]) : j \in DOMAIN lines.many}
  ELSE {FirstOfEntry(lines)}

\* the least element of a non-empty set of numbers
Least(S) == CHOOSE m \in S : \A x \in S : m <= x

C11_LinksToFirstLine ==
  (asked # <<>> /\ ~halted) =>
    /\ Len(refs) = 1
    /\ refs[1].replacementId = refs[1].n \o <<"L">> \o Dec(Least(FirstLines(asked[1])))

\* the reference to line 12 and then lines 1 to 2 links to line 1
C11_Witness ==
  /\ asked = <<Many(<<Line(12), Range(1, 2)>>)>>
  /\ ~halted
  /\ Len(refs) = 1
  /\ refs[1].replacementId = <<"p", "1", "L", "1">>

(***************************************************************************)
(* C12: rainbowed Delimiters are coloured by nesting depth: a pair that is *)
(* enclosed by d-1 other rainbowed pairs has the class rb<d mod            *)
(* colorsOfTheRainbow>, on its opening and on its closing delimiter, so    *)
(* any two rainbowed pairs at the same depth have the same class.          *)
(***************************************************************************)
\* the positions of the opening delimiters of rainbowed pairs
RainbowedOpens ==
  {j \in DOMAIN out : out[j].t = "open" /\ out[j - 1].t = "Delimiters" /\ out[j - 1].id = <<>>}

\* the positions of the closing delimiters of rainbowed pairs
RainbowedCloses ==
  {j \in DOMAIN out : /\ out[j].t = "close" /\ j < Len(out)
                      /\ out[j + 1].t = "/Delimiters" /\ out[j + 1].id = <<>>}

\* the number of rainbowed pairs that the delimiter at j belongs to or is enclosed by
RainbowDepth(j) ==
  Cardinality({k \in RainbowedOpens : k <= j}) - Cardinality({k \in RainbowedCloses : k < j})

\* the number of colours of the document: the configured one, or the default
ColoursInForce ==
  IF out # <<>> /\ out[1].t = "ConfigStructuredcode" /\ out[1].id # <<>>
    THEN ReadDigits(out[1].id)
    ELSE defaultStructuredcodeConfig.colorsOfTheRainbow

C12_ColouredByDepth ==
  /\ \A j \in RainbowedOpens \cup RainbowedCloses :
       out[j].c = <<"r", "b">> \o Dec(RainbowDepth(j) % ColoursInForce)
  /\ \A j, k \in RainbowedOpens : RainbowDepth(j) = RainbowDepth(k) => out[j].c = out[k].c

(***************************************************************************)
(* C13: Delimiters with noRainbow render both delimiters without an rb     *)
(* class and leave the rainbow counter as it is: the counter, and the      *)
(* class of every rainbowed pair, are what the rainbowed pairs alone make  *)
(* them.                                                                   *)
(***************************************************************************)
\* the rainbow counter after the first j events, had only the rainbowed pairs counted
RECURSIVE CountOfRainbowed(_)
CountOfRainbowed(j) ==
  IF j = 0 THEN initialStructuredcodeState.rainbowCount
  ELSE LET before == CountOfRainbowed(j - 1)
       IN  IF out[j].t = "Delimiters" /\ out[j].id = <<>>
             THEN JsRem(before + 1, ColoursInForce)
           ELSE IF out[j].t = "/Delimiters" /\ out[j].id = <<>>
             THEN JsRem(before - 1, ColoursInForce)
           ELSE before

\* the positions of the delimiters of pairs with noRainbow
PlainDelimiters ==
  {j \in DOMAIN out :
     \/ out[j].t = "open" /\ out[j - 1].t = "Delimiters" /\ out[j - 1].id = <<"noRainbow">>
     \/ /\ out[j].t = "close" /\ j < Len(out)
        /\ out[j + 1].t = "/Delimiters" /\ out[j + 1].id = <<"noRainbow">>}

C13_NoRainbowLeavesRainbow ==
  /\ \A j \in PlainDelimiters : out[j].c = <<>>
  /\ scState.rainbowCount = CountOfRainbowed(Len(out))
  /\ \A j \in RainbowedOpens : out[j].c = <<"r", "b">> \o Dec(CountOfRainbowed(j))

\* a pair with noRainbow that holds a rainbowed pair of the first colour and is
\* followed by another one
C13_Witness ==
  \E p, q \in PlainDelimiters :
    /\ out[p].t = "open" /\ out[q].t = "close" /\ p < q /\ out[p].d = out[q].d
    /\ \E j, k \in RainbowedOpens :
         /\ p < j /\ j < q /\ q < k
         /\ out[j].c = <<"r", "b", "1">> /\ out[k].c = <<"r", "b", "1">>

(***************************************************************************)
(* C14: a Delimited renders its content without its delimiters when the    *)
(* delimiter style is 'python' and pythonSkip is true, and with them when  *)
(* pythonSkip is false or undefined or the style is 'c' or 'ruby'.  As     *)
(* claimed, this holds for every value of multiline.                       *)
(***************************************************************************)
\* the Delimited macros of the document: where each begins and ends
Delimiteds ==
  {pq \in (DOMAIN out) \X (DOMAIN out) :
     /\ out[pq[1]].t = "Delimited" /\ out[pq[2]].t = "/Delimited" /\ pq[1] < pq[2]
     /\ \A j \in (pq[1] + 1)..(pq[2] - 1) : out[j].t # "/Delimited"}

\* the delimiter style in force for the Delimited at p, and what it was given
StyleOf(p) == out[p].id[1]
MultilineOf(p) == out[p].id[2]
PythonSkipOf(p) == out[p].id[3]
ContentOf(p) == ReadDigits(SubSeq(out[p].id, 4, Len(out[p].id)))

\* what the Delimited from p to q rendered
Renders(p, q, t) == Cardinality({j \in p..q : out[j].t = t})
WithDelimiters(p, q) == Renders(p, q, "open") = 1 /\ Renders(p, q, "close") = 1
WithoutDelimiters(p, q) == Renders(p, q, "open") = 0 /\ Renders(p, q, "close") = 0

NestedBibScopes ==
  {pq \in (DOMAIN out) \X (DOMAIN out) :
     /\ out[pq[1]].t = "BibScope" /\ out[pq[2]].t = "BibScope" /\ pq[1] < pq[2]
     /\ \A j \in (pq[1] + 1)..(pq[2] - 1) : out[j].t # "/BibScope"}

\* the state of the scope that the BibScope at p set up
ScopeStateAt(p) == BibScopeFun(out[p].id).myState

C15_NestedBibScopeHalts ==
  /\ \A pq \in NestedBibScopes :
       /\ halted
       /\ log # <<>> /\ log[Len(log)] = NestError
       /\ bib = <<ScopeStateAt(pq[1])>>
  /\ NestedBibScopes = {} =>
       /\ ~halted
       /\ \A j \in DOMAIN log : log[j] # NestError

\* a BibScope inside a BibScope that declares other items has halted the rendering
C15_Witness ==
  \E pq \in NestedBibScopes :
    /\ ScopeStateAt(pq[1]) # ScopeStateAt(pq[2])
    /\ DOMAIN ScopeStateAt(pq[1]).citeproc.itemMap # {}
    /\ DOMAIN ScopeStateAt(pq[2]).citeproc.itemMap # {}
    /\ halted
    /\ bib = <<ScopeStateAt(pq[1])>>

(***************************************************************************)
(* C16: the item lookup of a BibScope gives, for the id of a declared      *)
(* item, the CSL item declared with that id: an object whose own id, as a  *)
(* string, is the id asked for; and it gives undefined for any other id.   *)
(***************************************************************************)
\* the CSL items that the BibScope at p declares
DeclaredItems(p) ==
  {out[p].id[j].item.parsed :
     j \in {x \in DOMAIN out[p].id : ~(out[p].id[x].item.string /\ out[p].id[x].item.throws)}}

\* the BibScope whose engine made the lookup: the first of the document
FirstBibScope == CHOOSE p \in DOMAIN out : out[p].t = "BibScope" /\ \A j \in 1..(p - 1) : out[j].t # "BibScope"

\* obj is a CSL item of the set `items`
IsItemOf(obj, items) ==
  /\ DOMAIN obj = {"id", "type"}
  /\ \E item \in items : item.id = obj.id /\ item.type = obj.type

C16_LookupGivesItem ==
  retrieved # <<>> =>
    LET itemId == retrieved[1].itemId
        result == retrieved[1].result
        wanted == {item \in DeclaredItems(FirstBibScope) : ToStr(item.id) = ToStr(itemId)}
    IN  IF wanted # {}
          THEN /\ result # <<>>
               /\ IsItemOf(result[1], wanted)
          ELSE result = <<>>

====
